---- MODULE Spec2Model ----
(***************************************************************************)
(* git-cleanup (src/main.rs): one run of the tool as a state machine.      *)
(*                                                                         *)
(* A string is a sequence of one-character strings, so that trim(),        *)
(* starts_with() and lines() are computed on characters as the standard    *)
(* library computes them.  The git executable and the terminal prompt are  *)
(* the environment: every outcome they can hand back is a choice of the    *)
(* action that calls them.                                                 *)
(***************************************************************************)
EXTENDS Naturals, Sequences, FiniteSets

VARIABLES
    pc,                 \* position of main: "start", "list", "filter", "prompt", "delete", "done"
    args,               \* Args { target: Option<String>, dry_run: bool }
    target,             \* let target (line 24)
    output_str,         \* let output_str (line 49)
    branches_to_clean,  \* let branches_to_clean (line 52)
    selections,         \* let selections (line 67), 0-based indices
    pos,                \* how many elements of selections the for loop has consumed
    exit_code,          \* process exit status once pc = "done" (NoExit before)
    commands,           \* every git invocation so far: [cmd, arg, outcome]
    printed,            \* every message written to stdout/stderr so far
    prompt,             \* the MultiSelect prompt: "not_shown", "confirmed" or "error"
    git_stdout          \* what git printed for the listing, line by line (before joining)

vars == <<pc, args, target, output_str, branches_to_clean, selections, pos,
          exit_code, commands, printed, prompt, git_stdout>>

-----------------------------------------------------------------------------
(* Bounds of the model *)

\* longest listing (in lines) the filtering step is applied to in SpecFilter
MaxLines == 4
\* longest listing (in lines) git prints in a whole run (Spec)
MaxListed == 3

-----------------------------------------------------------------------------
(* Strings *)

MAIN == <<"m", "a", "i", "n">>
MASTER == <<"m", "a", "s", "t", "e", "r">>
FEATURE_A == <<"f", "e", "a", "t", "u", "r", "e", "-", "a">>
FEATURE_B == <<"f", "e", "a", "t", "u", "r", "e", "-", "b">>

\* Option<String>: None is the empty sequence, Some(t) is <<t>>
None == <<>>
Some(t) == <<t>>

\* char::is_whitespace, on the characters the model uses
IsWhitespace(c) == c \in {" ", "\t", "\r", "\n"}

RECURSIVE TrimStart(_)
TrimStart(s) ==
    IF s = <<>> THEN s
    ELSE IF IsWhitespace(Head(s)) THEN TrimStart(Tail(s))
    ELSE s

RECURSIVE TrimEnd(_)
TrimEnd(s) ==
    IF s = <<>> THEN s
    ELSE IF IsWhitespace(s[Len(s)]) THEN TrimEnd(SubSeq(s, 1, Len(s) - 1))
    ELSE s

\* str::trim (line 54)
Trim(s) == TrimEnd(TrimStart(s))

\* str::starts_with(char) (line 55)
StartsWith(s, c) == Len(s) > 0 /\ s[1] = c

\* strip_suffix(c): the string without a final c, or the string itself
StripSuffix(s, c) ==
    IF Len(s) > 0 /\ s[Len(s)] = c THEN SubSeq(s, 1, Len(s) - 1) ELSE s

\* str::lines (line 53): split after every "\n"; a piece that ends in "\n"
\* loses it and then one "\r"; a last piece without "\n" is kept as it is.
RECURSIVE LinesFrom(_, _)
LinesFrom(s, cur) ==
    IF s = <<>> THEN (IF cur = <<>> THEN <<>> ELSE <<cur>>)
    ELSE IF Head(s) = "\n" THEN <<StripSuffix(cur, "\r")>> \o LinesFrom(Tail(s), <<>>)
    ELSE LinesFrom(Tail(s), Append(cur, Head(s)))

Lines(s) == LinesFrom(s, <<>>)

\* what git writes to its stdout: every line followed by "\n"
RECURSIVE JoinLines(_)
JoinLines(ls) ==
    IF ls = <<>> THEN <<>> ELSE Head(ls) \o <<"\n">> \o JoinLines(Tail(ls))

-----------------------------------------------------------------------------
(* The environment's answers *)

\* a git subprocess either cannot be started, or exits with success or failure
Outcomes == {"spawn_error", "success", "failure"}

\* a byte of git's stdout that is no valid UTF-8
InvalidByte == "<0xFF>"

\* lines of `git branch --merged` the filtering step is tried on: the marker
\* of the current branch, plain branches, a branch of another worktree ("+"),
\* CR LF line ends, tabs and trailing blanks, an empty line
RawLines ==
    { <<"*", " ">> \o MAIN,
      <<" ", " ">> \o MAIN,
      <<" ", " ">> \o FEATURE_A,
      <<" ", " ">> \o FEATURE_B,
      <<"*", " ">> \o FEATURE_A,
      <<"+", " ">> \o FEATURE_B,
      <<" ", " ">> \o FEATURE_A \o <<"\r">>,
      <<"\t">> \o MAIN \o <<" ">>,
      <<>> }

\* lines git prints in a whole run
GitLines ==
    { <<"*", " ">> \o MAIN,
      <<" ", " ">> \o MAIN,
      <<" ", " ">> \o FEATURE_A,
      <<" ", " ">> \o FEATURE_B,
      <<"*", " ">> \o FEATURE_B,
      <<" ", " ">> \o FEATURE_A \o <<InvalidByte>> }

Listings(lines, n) == UNION { [1..k -> lines] : k \in 0..n }

\* --target values the user may give
UserTargets == {MAIN, FEATURE_A}

\* targets the filtering step is tried with
FilterTargets == {MAIN, FEATURE_A}

-----------------------------------------------------------------------------
(* Messages and commands *)

Msg(stream, text, arg) == [stream |-> stream, text |-> text, arg |-> arg]
Cmd(cmd, arg, outcome) == [cmd |-> cmd, arg |-> arg, outcome |-> outcome]

NoExit == 99

\* main returns Result<()>: Ok(()) exits 0, Err exits 1 after "Error: ..." on stderr
ExitCode(result) == IF result = "Ok" THEN 0 ELSE 1

Return(result, why) ==
    /\ pc' = "done"
    /\ exit_code' = ExitCode(result)
    /\ printed' = IF result = "Ok" THEN printed \o why
                  ELSE printed \o why \o <<Msg("stderr", "Error", <<>>)>>

-----------------------------------------------------------------------------
(* 1. Target resolution *)

\* branch_exists: true only when git ran and exited with success
branch_exists(outcome) == outcome = "success"

\* detect_default_branch with the two probes in the other order
detect_default_branch_master_first(env) ==
    IF branch_exists(env.master) THEN MASTER
    ELSE IF branch_exists(env.main) THEN MAIN
    ELSE MAIN

\* detect_default_branch (lines 106-115), given git's answer for each probed name
detect_default_branch(env) ==
    IF branch_exists(env.main) THEN MAIN
    ELSE IF branch_exists(env.master) THEN MASTER
    ELSE MAIN

\* the rev-parse invocations detect_default_branch makes, in order
detect_probes(env) ==
    IF branch_exists(env.main)
    THEN << Cmd("rev-parse --verify", MAIN, env.main) >>
    ELSE << Cmd("rev-parse --verify", MAIN, env.main),
            Cmd("rev-parse --verify", MASTER, env.master) >>

ResolveTarget ==
    /\ pc = "start"
    /\ \E env \in [main : Outcomes, master : Outcomes] :
          LET t == IF args.target # None THEN args.target[1]
                   ELSE detect_default_branch(env)
          IN /\ target' = t
             /\ commands' = IF args.target # None THEN commands
                            ELSE commands \o detect_probes(env)
             /\ printed' = Append(printed, Msg("stdout", "Searching", t))
    /\ pc' = "list"
    /\ UNCHANGED <<args, output_str, branches_to_clean, selections, pos,
                   exit_code, prompt, git_stdout>>

-----------------------------------------------------------------------------
(* 2. Merged-branch query *)

\* String::from_utf8
from_utf8_ok(bytes) == \A i \in 1..Len(bytes) : bytes[i] # InvalidByte

\* the spawn failure of the listing taken for a failed listing
ListSpawnErrorAbsorbed ==
    /\ commands' = Append(commands, Cmd("branch --merged", target, "spawn_error"))
    /\ Return("Ok", << Msg("stderr", "Error: Target branch not found or not a git repository.", <<>>) >>)
    /\ UNCHANGED <<output_str, git_stdout>>

\* the failed listing returned as an error
ListFailureAsError ==
    /\ commands' = Append(commands, Cmd("branch --merged", target, "failure"))
    /\ Return("Err", << Msg("stderr", "Error: Target branch not found or not a git repository.", <<>>) >>)
    /\ UNCHANGED <<output_str, git_stdout>>

\* .output() failed: "Failed to execute git command" is returned with `?`
ListSpawnError ==
    /\ commands' = Append(commands, Cmd("branch --merged", target, "spawn_error"))
    /\ Return("Err", <<>>)
    /\ UNCHANGED <<output_str, git_stdout>>

\* git ran and exited with failure: the message, then Ok(())
ListFailure ==
    /\ commands' = Append(commands, Cmd("branch --merged", target, "failure"))
    /\ Return("Ok", << Msg("stderr", "Error: Target branch not found or not a git repository.", <<>>) >>)
    /\ UNCHANGED <<output_str, git_stdout>>

ListSuccess ==
    /\ commands' = Append(commands, Cmd("branch --merged", target, "success"))
    /\ \E listing \in Listings(GitLines, MaxListed) :
          /\ git_stdout' = listing
          /\ IF from_utf8_ok(JoinLines(listing))
             THEN /\ output_str' = JoinLines(listing)
                  /\ pc' = "filter"
                  /\ UNCHANGED <<exit_code, printed>>
             ELSE /\ Return("Err", <<>>)
                  /\ UNCHANGED output_str

ListMerged ==
    /\ pc = "list"
    /\ \/ ListSpawnError
       \/ ListFailure
       \/ ListSuccess
    /\ UNCHANGED <<args, target, branches_to_clean, selections, pos, prompt>>

-----------------------------------------------------------------------------
(* 3. Parsing and filtering *)

\* .map(|line| line.trim().to_string())
TrimLines(ls) == [i \in 1..Len(ls) |-> Trim(ls[i])]

\* the first filter letting every line through
KeepEveryLine(line) == TRUE

\* .filter(|line| !line.starts_with('*'))
NotCurrent(line) == ~StartsWith(line, "*")

\* .filter(|line| line != &target)
NotTarget(line, t) == line # t

\* the iterator chain with repeated entries dropped
RECURSIVE Dedup(_)
Dedup(s) ==
    IF s = <<>> THEN s
    ELSE LET rest == Dedup(SubSeq(s, 1, Len(s) - 1))
         IN IF \E i \in 1..Len(rest) : rest[i] = s[Len(s)] THEN rest
            ELSE Append(rest, s[Len(s)])

FilterBranchesDedup(str, t) ==
    Dedup(SelectSeq(SelectSeq(TrimLines(Lines(str)), NotCurrent),
                    LAMBDA line : NotTarget(line, t)))

\* the iterator chain of lines 52-57
FilterBranches(str, t) ==
    SelectSeq(SelectSeq(TrimLines(Lines(str)), NotCurrent),
              LAMBDA line : NotTarget(line, t))

\* the emptiness test of line 59 never taken
NeverEmpty(v) == FALSE

\* branches_to_clean.is_empty() (line 59)
BranchesEmpty(v) == Len(v) = 0

Filter ==
    /\ pc = "filter"
    /\ LET list == FilterBranches(output_str, target)
       IN /\ branches_to_clean' = list
          /\ IF BranchesEmpty(list)
             THEN Return("Ok", << Msg("stdout", "Clean! No merged branches to delete.", <<>>) >>)
             ELSE /\ pc' = "prompt"
                  /\ printed' = Append(printed, Msg("stdout", "Found", Len(list)))
                  /\ UNCHANGED exit_code
    /\ UNCHANGED <<args, target, output_str, selections, pos, commands, prompt,
                   git_stdout>>

-----------------------------------------------------------------------------
(* 4. Interactive selection *)

\* MultiSelect::interact returns the checked indices (0-based) in ascending order
RECURSIVE Ascending(_)
Ascending(S) ==
    IF S = {} THEN <<>>
    ELSE LET m == CHOOSE x \in S : \A y \in S : x <= y
         IN <<m>> \o Ascending(S \ {m})

\* the emptiness test of line 73 never taken
SelectionNeverEmpty(v) == FALSE

\* selections.is_empty() (line 73)
SelectionEmpty(v) == Len(v) = 0

Prompt ==
    /\ pc = "prompt"
    /\ \/ \* interact() fails (no terminal, I/O error): returned with `?`
          /\ prompt' = "error"
          /\ Return("Err", <<>>)
          /\ UNCHANGED <<selections, pos>>
       \/ \E S \in SUBSET (0..(Len(branches_to_clean) - 1)) :
             /\ prompt' = "confirmed"
             /\ selections' = Ascending(S)
             /\ pos' = 0
             /\ IF SelectionEmpty(Ascending(S))
                THEN Return("Ok", << Msg("stdout", "Cancelled. No branches were deleted.", <<>>) >>)
                ELSE /\ pc' = "delete"
                     /\ UNCHANGED <<exit_code, printed>>
    /\ UNCHANGED <<args, target, output_str, branches_to_clean, commands, git_stdout>>

-----------------------------------------------------------------------------
(* 5. Deletion *)

\* what one call does: the command it runs, what it prints, what it returns
Did(cmds, msgs, result) == [commands |-> cmds, printed |-> msgs, result |-> result]

\* delete_branch with a failed deletion returned as an error
delete_branch_failing(branch_name, outcome) ==
    LET cmd == << Cmd("branch -d", branch_name, outcome) >>
    IN CASE outcome = "spawn_error" -> Did(cmd, <<>>, "Err")
         [] outcome = "success" ->
                Did(cmd, << Msg("stdout", "Deleted", branch_name) >>, "Ok")
         [] outcome = "failure" ->
                Did(cmd, << Msg("stderr", "Error deleting", branch_name) >>, "Err")

\* delete_branch (lines 117-130): .status()? propagates a spawn failure; an
\* exit status, good or bad, is printed and Ok(()) returned
delete_branch(branch_name, outcome) ==
    LET cmd == << Cmd("branch -d", branch_name, outcome) >>
    IN CASE outcome = "spawn_error" -> Did(cmd, <<>>, "Err")
         [] outcome = "success" ->
                Did(cmd, << Msg("stdout", "Deleted", branch_name) >>, "Ok")
         [] outcome = "failure" ->
                Did(cmd, << Msg("stderr", "Error deleting", branch_name) >>, "Ok")

\* the indexing of line 80 slipping to the next entry
BranchAtNext(v, index) == v[((index + 1) % Len(v)) + 1]

\* &branches_to_clean[index] (line 80), index counted from 0
BranchAt(v, index) == v[index + 1]

\* the loop body with the dry-run test dropped
LoopBodyAlwaysDeleting(dry_run, branch_name, outcome) ==
    delete_branch(branch_name, outcome)

\* the body of the for loop (lines 80-86)
LoopBody(dry_run, branch_name, outcome) ==
    IF dry_run
    THEN Did(<<>>, << Msg("stdout", "[Dry-Run] Would delete", branch_name) >>, "Ok")
    ELSE delete_branch(branch_name, outcome)

\* one iteration of `for index in selections`
DeleteNext ==
    /\ pc = "delete"
    /\ pos < Len(selections)
    /\ LET index == selections[pos + 1]
           branch_name == BranchAt(branches_to_clean, index)
       IN \E outcome \in Outcomes :
             LET did == LoopBody(args.dry_run, branch_name, outcome)
             IN /\ commands' = commands \o did.commands
                /\ pos' = pos + 1
                /\ IF did.result = "Err"
                   THEN Return("Err", did.printed)
                   ELSE /\ printed' = printed \o did.printed
                        /\ UNCHANGED <<pc, exit_code>>
    /\ UNCHANGED <<args, target, output_str, branches_to_clean, selections,
                   prompt, git_stdout>>

\* after the loop (lines 89-93)
Finish ==
    /\ pc = "delete"
    /\ pos = Len(selections)
    /\ Return("Ok", IF ~args.dry_run THEN << Msg("stdout", "Done!", <<>>) >> ELSE <<>>)
    /\ UNCHANGED <<args, target, output_str, branches_to_clean, selections, pos,
                   commands, prompt, git_stdout>>

-----------------------------------------------------------------------------
(* The run *)

Init ==
    /\ pc = "start"
    /\ args \in [target : {None} \cup {Some(t) : t \in UserTargets}, dry_run : BOOLEAN]
    /\ target = <<>>
    /\ output_str = <<>>
    /\ branches_to_clean = <<>>
    /\ selections = <<>>
    /\ pos = 0
    /\ exit_code = NoExit
    /\ commands = <<>>
    /\ printed = <<>>
    /\ prompt = "not_shown"
    /\ git_stdout = <<>>

Next ==
    \/ ResolveTarget
    \/ ListMerged
    \/ Filter
    \/ Prompt
    \/ DeleteNext
    \/ Finish

Spec == Init /\ [][Next]_vars

\* The filtering step on its own: main has resolved the target and read a
\* listing of up to MaxLines lines, and is about to filter it.
InitFilter ==
    /\ pc = "filter"
    /\ \E t \in FilterTargets, listing \in Listings(RawLines, MaxLines) :
          /\ args = [target |-> Some(t), dry_run |-> FALSE]
          /\ target = t
          /\ git_stdout = listing
          /\ output_str = JoinLines(listing)
          /\ commands = << Cmd("branch --merged", t, "success") >>
          /\ printed = << Msg("stdout", "Searching", t) >>
    /\ branches_to_clean = <<>>
    /\ selections = <<>>
    /\ pos = 0
    /\ exit_code = NoExit
    /\ prompt = "not_shown"

NextFilter == Filter

SpecFilter == InitFilter /\ [][NextFilter]_vars

-----------------------------------------------------------------------------
(* What the properties speak of *)

\* the git invocations of one kind, in the order they were made
CommandsOf(cmd) == SelectSeq(commands, LAMBDA c : c.cmd = cmd)

Probes == CommandsOf("rev-parse --verify")
Listed == CommandsOf("branch --merged")
Deletes == CommandsOf("branch -d")

\* the messages with one text, in the order they were printed
PrintedOf(text) == SelectSeq(printed, LAMBDA m : m.text = text)

LastOf(s) == s[Len(s)]

\* main has read a listing: git listed with success and printed valid UTF-8
ListingRead ==
    /\ Listed # <<>>
    /\ Listed[1].outcome = "success"
    /\ from_utf8_ok(JoinLines(git_stdout))

\* the filtering step has run
Filtered == pc \in {"prompt", "delete", "done"} /\ ListingRead

\* the name at the i-th confirmed index
Selected(i) == branches_to_clean[selections[i] + 1]

\* a line as a reader strips it: from its first to its last non-blank character
FirstNonBlank(l) ==
    CHOOSE i \in 1..(Len(l) + 1) :
        /\ i = Len(l) + 1 \/ ~IsWhitespace(l[i])
        /\ \A j \in 1..(i - 1) : IsWhitespace(l[j])

LastNonBlank(l) ==
    CHOOSE j \in 0..Len(l) :
        /\ j = 0 \/ ~IsWhitespace(l[j])
        /\ \A k \in (j + 1)..Len(l) : IsWhitespace(l[k])

StrippedOf(l) == SubSeq(l, FirstNonBlank(l), LastNonBlank(l))

\* the line marks the checked-out branch: its first non-blank character is "*"
IsMarkerLine(l) == FirstNonBlank(l) <= Len(l) /\ l[FirstNonBlank(l)] = "*"

\* the branch a line of the listing names: the line without blanks and
\* without git's leading "* " or "+ "
BranchNameOf(l) ==
    LET t == StrippedOf(l)
    IN IF Len(t) >= 2 /\ t[1] \in {"*", "+"} /\ t[2] = " "
       THEN SubSeq(t, 3, Len(t))
       ELSE t

\* the names of the checked-out branch according to the listing
CurrentNames(listing) ==
    { BranchNameOf(listing[i]) : i \in { k \in 1..Len(listing) : IsMarkerLine(listing[k]) } }

\* git lists every branch once
EachBranchOnce(listing) ==
    \A i, j \in 1..Len(listing) :
        i # j => BranchNameOf(listing[i]) # BranchNameOf(listing[j])

\* the lines of the listing that are to survive, by position
Kept(listing, t) ==
    { i \in 1..Len(listing) : ~IsMarkerLine(listing[i]) /\ StrippedOf(listing[i]) # t }

\* the j-th smallest element of K
Kth(K, j) == CHOOSE k \in K : Cardinality({ x \in K : x < k }) = j - 1

Scenario ==
    << <<"*", " ">> \o MAIN, <<" ", " ">> \o FEATURE_A,
       <<" ", " ">> \o FEATURE_B, <<" ", " ">> \o MAIN >>

-----------------------------------------------------------------------------
(* Properties of the filtering step (SpecFilter) *)

C2_CandidatesAreFilteredListing ==
    Filtered =>
        LET K == Kept(git_stdout, target)
        IN /\ Len(branches_to_clean) = Cardinality(K)
           /\ \A j \in 1..Len(branches_to_clean) :
                  branches_to_clean[j] = StrippedOf(git_stdout[Kth(K, j)])
           /\ (git_stdout = Scenario /\ target = MAIN) =>
                  branches_to_clean = << FEATURE_A, FEATURE_B >>

\* the scenario's listing has been filtered with target main
C2_Witness ==
    /\ Filtered
    /\ git_stdout = Scenario
    /\ target = MAIN
    /\ Len(branches_to_clean) = 2

-----------------------------------------------------------------------------
(* Properties of a whole run (Spec) *)

\* C3: in dry-run mode no `git branch -d` is ever run and nothing is reported
\* as deleted; the branches the loop has gone through, and only they, are
\* reported as intended deletions, in selection order.
C3_DryRunNeverDeletes ==
    args.dry_run =>
        /\ Deletes = <<>>
        /\ PrintedOf("Deleted") = <<>>
        /\ Len(PrintedOf("[Dry-Run] Would delete")) = pos
        /\ \A i \in 1..pos : PrintedOf("[Dry-Run] Would delete")[i].arg = Selected(i)

\* a dry run has gone through a selection of two branches or more
C3_Witness ==
    /\ args.dry_run
    /\ pc = "done"
    /\ exit_code = 0
    /\ Len(selections) >= 2
    /\ pos = Len(selections)

\* the reports of the deletions that ran, one per exit status, in order
OutcomeReports == SelectSeq(printed, LAMBDA m : m.text \in {"Deleted", "Error deleting"})

\* C4: outside dry-run mode the i-th deletion attempted is the i-th selected
\* branch, every deletion that ran is reported by its own message (deleted or
\* failed), and a run that has entered the loop ends only after the last
\* selected branch, with exit code 0, or on a deletion that could not be
\* started: a deletion that fails never ends the loop.
C4_EveryDeletionAttempted ==
    (~args.dry_run /\ prompt = "confirmed") =>
        /\ Len(Deletes) = pos
        /\ \A i \in 1..pos : Deletes[i].arg = Selected(i)
        /\ LET ran == SelectSeq(Deletes, LAMBDA c : c.outcome # "spawn_error")
           IN /\ Len(OutcomeReports) = Len(ran)
              /\ \A i \in 1..Len(ran) :
                    /\ OutcomeReports[i].arg = ran[i].arg
                    /\ OutcomeReports[i].text =
                          IF ran[i].outcome = "success" THEN "Deleted" ELSE "Error deleting"
        /\ (pc = "done" /\ selections # <<>>) =>
              \/ pos = Len(selections) /\ exit_code = 0
              \/ LastOf(Deletes).outcome = "spawn_error"

\* a run has ended normally after a failed deletion followed by a successful one
C4_Witness ==
    /\ ~args.dry_run
    /\ pc = "done"
    /\ exit_code = 0
    /\ Len(Deletes) >= 2
    /\ Deletes[1].outcome = "failure"
    /\ Deletes[2].outcome = "success"

\* C5: a target the user gives is used as given and nothing is probed.
\* Without one, "main" is probed first and is the target if the probe
\* succeeds; otherwise "master" is probed and is the target if that probe
\* succeeds; otherwise the target is "main".  Resolution does not end the run.
C5_TargetResolution ==
    pc # "start" =>
        /\ args.target # None => (target = args.target[1] /\ Probes = <<>>)
        /\ args.target = None =>
              /\ Len(Probes) \in {1, 2}
              /\ Probes[1].arg = MAIN
              /\ Probes[1].outcome = "success" => (target = MAIN /\ Len(Probes) = 1)
              /\ Probes[1].outcome # "success" =>
                    /\ Len(Probes) = 2
                    /\ Probes[2].arg = MASTER
                    /\ target = IF Probes[2].outcome = "success" THEN MASTER ELSE MAIN
        /\ pc = "list" => exit_code = NoExit

\* no target given, "main" does not exist, "master" does
C5_Witness ==
    /\ pc = "list"
    /\ args.target = None
    /\ Probes[1].outcome = "failure"
    /\ Probes[2].outcome = "success"
    /\ target = MASTER

\* C6: once filtering has left no candidate, the run has ended with exit code
\* 0 on the "nothing to clean" message, the prompt has not been shown and no
\* deletion has been run.
C6_NothingToClean ==
    (Filtered /\ branches_to_clean = <<>>) =>
        /\ pc = "done"
        /\ exit_code = 0
        /\ LastOf(printed) = Msg("stdout", "Clean! No merged branches to delete.", <<>>)
        /\ prompt = "not_shown"
        /\ Deletes = <<>>

\* a listing that is not empty has been filtered down to nothing
C6_Witness ==
    /\ Filtered
    /\ branches_to_clean = <<>>
    /\ git_stdout # <<>>

\* C7: once the user has confirmed an empty selection, the run has ended with
\* exit code 0, the loop is not entered, no deletion has been run and no
\* branch is reported as deleted or as a dry-run intent.
C7_EmptySelection ==
    (prompt = "confirmed" /\ selections = <<>>) =>
        /\ pc = "done"
        /\ exit_code = 0
        /\ Deletes = <<>>
        /\ OutcomeReports = <<>>
        /\ PrintedOf("[Dry-Run] Would delete") = <<>>

\* the user has confirmed an empty selection outside dry-run mode
C7_Witness ==
    /\ prompt = "confirmed"
    /\ selections = <<>>
    /\ ~args.dry_run
    /\ Len(branches_to_clean) >= 2

\* git ran the listing and exited with failure
ListingFailed == Listed # <<>> /\ Listed[1].outcome = "failure"

\* the run went through the whole deletion loop
LoopCompleted ==
    /\ prompt = "confirmed"
    /\ selections # <<>>
    /\ pc = "done"
    /\ pos = Len(selections)
    /\ Deletes # <<>> => LastOf(Deletes).outcome # "spawn_error"

\* C8: once the listing has failed, the run has ended with exit code 0 on the
\* error message, without prompt and without deletion; and a run that ended
\* on a failed listing, on an empty candidate list, on an empty selection or
\* after the whole deletion loop ended with exit code 0.
C8_HandledPathsExitZero ==
    /\ ListingFailed =>
          /\ pc = "done"
          /\ exit_code = 0
          /\ LastOf(printed).stream = "stderr"
          /\ LastOf(printed).text = "Error: Target branch not found or not a git repository."
          /\ prompt = "not_shown"
          /\ Deletes = <<>>
    /\ ( pc = "done" /\ \/ ListingFailed
                        \/ Filtered /\ branches_to_clean = <<>>
                        \/ prompt = "confirmed" /\ selections = <<>>
                        \/ LoopCompleted ) => exit_code = 0

\* the listing of an auto-detected target has failed
C8_Witness ==
    /\ ListingFailed
    /\ args.target = None
    /\ pc = "done"

\* C9 as stated: a run in which any git invocation could not be started ends
\* as a failure, with the error on stderr.
C9_EverySpawnFailureFatal ==
    (pc = "done" /\ \E i \in 1..Len(commands) : commands[i].outcome = "spawn_error") =>
        /\ exit_code = 1
        /\ LastOf(printed) = Msg("stderr", "Error", <<>>)

\* C9, amended: a listing or a deletion that could not be started is the
\* run's last command and the run has ended with exit code 1 and the error on
\* stderr; an existence probe that could not be started counts as "does not
\* exist": after "main" the probe of "master" follows, after "master" the
\* target is "main", and the run goes on to the listing.
C9_ListAndDeleteSpawnFailureFatal ==
    /\ \A i \in 1..Len(commands) :
          (commands[i].outcome = "spawn_error" /\ commands[i].cmd # "rev-parse --verify") =>
              /\ i = Len(commands)
              /\ pc = "done"
              /\ exit_code = 1
              /\ LastOf(printed) = Msg("stderr", "Error", <<>>)
    /\ \A i \in 1..Len(Probes) :
          Probes[i].outcome = "spawn_error" =>
              /\ i = 1 => (Len(Probes) = 2 /\ Probes[2].arg = MASTER)
              /\ i = 2 => target = MAIN
              /\ Listed # <<>> \/ (pc = "list" /\ exit_code = NoExit)

\* the probe of "main" could not be started, the run went on, and its second
\* deletion could not be started
C9_Witness ==
    /\ Probes # <<>>
    /\ Probes[1].outcome = "spawn_error"
    /\ Len(Deletes) = 2
    /\ Deletes[1].outcome = "success"
    /\ Deletes[2].outcome = "spawn_error"
    /\ exit_code = 1

\* the confirmed indices are distinct positions of the candidate list, ascending
SelectionsWellFormed ==
    /\ \A i \in 1..Len(selections) : selections[i] \in 0..(Len(branches_to_clean) - 1)
    /\ \A i, j \in 1..Len(selections) : i < j => selections[i] < selections[j]

C10_State ==
    /\ SelectionsWellFormed
    /\ Len(Deletes) <= pos
    /\ Len(Deletes) <= Len(branches_to_clean)
    /\ \A j \in 1..Len(Deletes) :
          /\ Deletes[j].arg = Selected(j)
          /\ Deletes[j].arg # target
          /\ Deletes[j].arg = <<>> \/ Deletes[j].arg[1] # "*"

\* C10: the j-th deletion is run on the candidate at the j-th confirmed
\* index, the confirmed indices being distinct positions of the list, so no
\* deletion is run on the target, on the marker line or twice for one index,
\* and there are no more deletions than candidates; and the candidate list,
\* once built, is changed neither by the prompt nor by the loop.
C10_DeletionsAreConfirmedCandidates ==
    /\ [] C10_State
    /\ [][Filtered => branches_to_clean' = branches_to_clean]_vars

\* two of three candidates were confirmed, the first and the last, and both
\* deletions have been run
C10_Witness ==
    /\ Len(branches_to_clean) = 3
    /\ selections = <<0, 2>>
    /\ Len(Deletes) = 2
    /\ pc = "done"

====
